---- MODULE Spec2Model ----
(***************************************************************************)
(* The elevator controller of src/script.js: one car, one request queue,   *)
(* and a chain of setTimeout callbacks (arrival, door open, door close).   *)
(* Every action is one run-to-completion JavaScript task: a floor button   *)
(* click handler or one timer callback.                                    *)
(***************************************************************************)
EXTENDS Integers, Sequences, FiniteSets, TLC

(***************************************************************************)
(* Bounds of the model: the building has floors -NumBelow .. MaxFloor.     *)
(***************************************************************************)
NumBelow == 1
MaxFloor == 2
Floors == (0 - NumBelow)..MaxFloor

\* the timed specification follows the clock up to MaxTime milliseconds
MaxTime == 12000

(***************************************************************************)
(* Program constants.                                                      *)
(***************************************************************************)
TIME_PER_FLOOR == 2000
DOOR_OPEN_TIME == 3000
DOOR_CLOSE_TIME == 500

IDLE == "idle"
MOVING_UP == "moving-up"
MOVING_DOWN == "moving-down"
DOOR_OPEN == "door-open"
STATES == {IDLE, MOVING_UP, MOVING_DOWN, DOOR_OPEN}

VARIABLES
    currentState,   \* let currentState
    currentFloor,   \* let currentFloor
    requestQueue,   \* let requestQueue
    timers,         \* pending setTimeout callbacks, in scheduling order
    transitions,    \* the setState calls made by the last task, in order
    lastEvent,      \* the last task that ran: what it was and on what input
    accepting,      \* the presentation adapter still delivers button clicks
    dequeued,       \* the floors the last task shifted off requestQueue
    lastDequeued,   \* the floor shifted most recently, <<>> before the first
    clock           \* ms from the car's last start from rest to the last
                    \* task that began a phase (0 where time is not followed)

vars == <<currentState, currentFloor, requestQueue, timers, transitions,
          lastEvent, accepting, dequeued, lastDequeued, clock>>

Abs(n) == IF n < 0 THEN 0 - n ELSE n

Range(s) == {s[i] : i \in 1..Len(s)}

Includes(s, x) == \E i \in 1..Len(s) : s[i] = x

RemoveAt(s, i) == SubSeq(s, 1, i - 1) \o SubSeq(s, i + 1, Len(s))

(***************************************************************************)
(* The controller as a value: the closure variables of the DOMContentLoaded*)
(* listener plus the timers it has scheduled and the setState calls of the *)
(* running task.                                                           *)
(***************************************************************************)
Controller ==
    [currentState |-> currentState, currentFloor |-> currentFloor,
     requestQueue |-> requestQueue, timers |-> timers,
     transitions |-> <<>>, dequeued |-> <<>>, clock |-> clock]

setState(c, newState) ==
    [c EXCEPT !.currentState = newState,
              !.transitions = Append(@, newState)]

setTimeout(c, callback, delay) ==
    [c EXCEPT !.timers = Append(@, callback @@ [delay |-> delay,
                                                at |-> c.clock + delay])]

openDoors(c) ==
    setTimeout(setState(c, DOOR_OPEN),
               [kind |-> "closeDoors"], DOOR_OPEN_TIME)

\* variant: the car's floor is committed when the motion starts
moveElevator_SetsFloorEarly(c, targetFloor) ==
    LET direction == IF targetFloor > c.currentFloor THEN "UP" ELSE "DOWN"
        moving == setState(c, IF direction = "UP" THEN MOVING_UP
                                                  ELSE MOVING_DOWN)
        travelTime == Abs(targetFloor - c.currentFloor) * TIME_PER_FLOOR
    IN  setTimeout([moving EXCEPT !.currentFloor = targetFloor],
                   [kind |-> "arrival", targetFloor |-> targetFloor],
                   travelTime)

\* variant: the direction test is the wrong way round
moveElevator_DirectionFlipped(c, targetFloor) ==
    LET direction == IF targetFloor < c.currentFloor THEN "UP" ELSE "DOWN"
        moving == setState(c, IF direction = "UP" THEN MOVING_UP
                                                  ELSE MOVING_DOWN)
        travelTime == Abs(targetFloor - c.currentFloor) * TIME_PER_FLOOR
    IN  setTimeout(moving,
                   [kind |-> "arrival", targetFloor |-> targetFloor],
                   travelTime)

\* variant: the travel time does not grow with the distance
moveElevator_FlatTravelTime(c, targetFloor) ==
    LET direction == IF targetFloor > c.currentFloor THEN "UP" ELSE "DOWN"
        moving == setState(c, IF direction = "UP" THEN MOVING_UP
                                                  ELSE MOVING_DOWN)
    IN  setTimeout(moving,
                   [kind |-> "arrival", targetFloor |-> targetFloor],
                   TIME_PER_FLOOR)

moveElevator(c, targetFloor) ==
    LET direction == IF targetFloor > c.currentFloor THEN "UP" ELSE "DOWN"
        moving == setState(c, IF direction = "UP" THEN MOVING_UP
                                                  ELSE MOVING_DOWN)
        travelDistance == Abs(targetFloor - c.currentFloor)
        travelTime == travelDistance * TIME_PER_FLOOR
    IN  setTimeout(moving,
                   [kind |-> "arrival", targetFloor |-> targetFloor],
                   travelTime)

\* variant: no shortcut for a request for the floor the car is on
processNextRequest_NoShortcut(c) ==
    IF c.currentState # IDLE \/ Len(c.requestQueue) = 0
    THEN c
    ELSE moveElevator([c EXCEPT !.requestQueue = Tail(@),
                                !.dequeued = Append(@, Head(c.requestQueue))],
                      Head(c.requestQueue))

processNextRequest(c) ==
    IF c.currentState # IDLE \/ Len(c.requestQueue) = 0
    THEN c
    ELSE LET targetFloor == Head(c.requestQueue)
             shifted == [c EXCEPT !.requestQueue = Tail(@),
                                  !.dequeued = Append(@, targetFloor)]
         IN  IF targetFloor = shifted.currentFloor
             THEN openDoors(shifted)
             ELSE moveElevator(shifted, targetFloor)

\* variant: on arrival the car goes back to idle without a door cycle
arrival_SkipsDoors(c, targetFloor) ==
    processNextRequest(setState([c EXCEPT !.currentFloor = targetFloor], IDLE))

\* the callback moveElevator schedules
arrival(c, targetFloor) ==
    openDoors([c EXCEPT !.currentFloor = targetFloor])

\* variant: the door-close callback does not look at the queue again
doorsClosed_NoDispatch(c) ==
    setState(c, IDLE)

\* variant: the door-close callback forgets to return to idle
doorsClosed_StaysOpen(c) ==
    processNextRequest(c)

\* the callback closeDoors schedules
doorsClosed(c) ==
    processNextRequest(setState(c, IDLE))

\* variant: closeDoors moves the doors but schedules nothing
closeDoors_NeverCloses(c) ==
    c

\* variant: closeDoors returns to idle at once, and again after the animation
closeDoors_IdleEarly(c) ==
    setTimeout(processNextRequest(setState(c, IDLE)),
               [kind |-> "doorsClosed"], DOOR_CLOSE_TIME)

closeDoors(c) ==
    setTimeout(c, [kind |-> "doorsClosed"], DOOR_CLOSE_TIME)

\* the comparator handed to requestQueue.sort
compare(c, a, b) ==
    LET dir == IF c.currentState = MOVING_UP THEN 1 ELSE 0 - 1
    IN  IF \/ (a > c.currentFloor /\ b > c.currentFloor)
           \/ (a < c.currentFloor /\ b < c.currentFloor)
        THEN dir * (a - b)
        ELSE a - b

\* Array.prototype.sort: a stable insertion of each element in turn
RECURSIVE InsertSorted(_, _, _)
InsertSorted(c, s, x) ==
    IF Len(s) = 0 THEN <<x>>
    ELSE IF compare(c, s[Len(s)], x) > 0
         THEN Append(InsertSorted(c, SubSeq(s, 1, Len(s) - 1), x), s[Len(s)])
         ELSE Append(s, x)

RECURSIVE SortQueue(_, _)
SortQueue(c, s) ==
    IF Len(s) = 0 THEN <<>>
    ELSE InsertSorted(c, SortQueue(c, SubSeq(s, 1, Len(s) - 1)), s[Len(s)])

\* variant: the listener queues the floor without looking for it first
click_NoDedup(c, floor) ==
    LET queued == [c EXCEPT !.requestQueue = SortQueue(c, Append(@, floor))]
    IN  IF queued.currentState = IDLE
        THEN processNextRequest(queued)
        ELSE queued

\* variant: the queue is sorted again on every click, queued floor or not
click_ResortsAlways(c, floor) ==
    LET pushed == IF ~Includes(c.requestQueue, floor)
                  THEN [c EXCEPT !.requestQueue = Append(@, floor)]
                  ELSE c
        queued == [pushed EXCEPT !.requestQueue = SortQueue(c, @)]
    IN  IF queued.currentState = IDLE
        THEN processNextRequest(queued)
        ELSE queued

\* variant: a request for the floor the car is travelling to is dropped
click_IgnoresTarget(c, floor) ==
    LET inFlight == \E i \in 1..Len(c.timers) :
                        /\ c.timers[i].kind = "arrival"
                        /\ c.timers[i].targetFloor = floor
        queued == IF ~Includes(c.requestQueue, floor) /\ ~inFlight
                  THEN [c EXCEPT !.requestQueue = SortQueue(c, Append(@, floor))]
                  ELSE c
    IN  IF queued.currentState = IDLE
        THEN processNextRequest(queued)
        ELSE queued

\* variant: a request for the floor whose doors are open opens them again
click_ReopensDoors(c, floor) ==
    LET queued == IF ~Includes(c.requestQueue, floor)
                  THEN [c EXCEPT !.requestQueue = SortQueue(c, Append(@, floor))]
                  ELSE c
    IN  IF queued.currentState = IDLE
        THEN processNextRequest(queued)
        ELSE IF queued.currentState = DOOR_OPEN /\ floor = queued.currentFloor
             THEN openDoors(queued)
             ELSE queued

\* variant: a request for the floor whose doors are open is dropped
click_IgnoresOpenFloor(c, floor) ==
    LET here == c.currentState = DOOR_OPEN /\ floor = c.currentFloor
        queued == IF ~Includes(c.requestQueue, floor) /\ ~here
                  THEN [c EXCEPT !.requestQueue = SortQueue(c, Append(@, floor))]
                  ELSE c
    IN  IF queued.currentState = IDLE
        THEN processNextRequest(queued)
        ELSE queued

\* variant: the listener dispatches the queue head itself, busy or not
click_Preempts(c, floor) ==
    LET queued == IF ~Includes(c.requestQueue, floor)
                  THEN [c EXCEPT !.requestQueue = SortQueue(c, Append(@, floor))]
                  ELSE c
    IN  processNextRequest([queued EXCEPT !.currentState = IDLE])

\* the click listener of a floor button
click(c, floor) ==
    LET queued == IF ~Includes(c.requestQueue, floor)
                  THEN [c EXCEPT !.requestQueue = SortQueue(c, Append(@, floor))]
                  ELSE c
    IN  IF queued.currentState = IDLE
        THEN processNextRequest(queued)
        ELSE queued

\* run one timer callback
callback(c, timer) ==
    CASE timer.kind = "arrival" -> arrival(c, timer.targetFloor)
      [] timer.kind = "closeDoors" -> closeDoors(c)
      [] timer.kind = "doorsClosed" -> doorsClosed(c)

Commit(c) ==
    /\ currentState' = c.currentState
    /\ currentFloor' = c.currentFloor
    /\ requestQueue' = c.requestQueue
    /\ timers' = c.timers
    /\ transitions' = c.transitions
    /\ dequeued' = c.dequeued
    /\ lastDequeued' = IF Len(c.dequeued) = 0 THEN lastDequeued
                       ELSE <<c.dequeued[Len(c.dequeued)]>>

Init ==
    /\ currentState = IDLE
    /\ currentFloor = 0
    /\ requestQueue = <<>>
    /\ timers = <<>>
    /\ transitions = <<IDLE>>
    /\ lastEvent = [kind |-> "init", floor |-> 0, during |-> IDLE,
                    added |-> FALSE]
    /\ accepting = TRUE
    /\ dequeued = <<>>
    /\ lastDequeued = <<>>
    /\ clock = 0

Click(floor) ==
    /\ accepting
    /\ Commit(click(Controller, floor))
    /\ lastEvent' = [kind |-> "click", floor |-> floor,
                     during |-> currentState,
                     added |-> ~Includes(requestQueue, floor)]
    /\ UNCHANGED <<accepting, clock>>

Fire(i) ==
    /\ i \in 1..Len(timers)
    /\ Commit(callback([Controller EXCEPT !.timers = RemoveAt(@, i)],
                       timers[i]))
    /\ lastEvent' = [kind |-> timers[i].kind,
                     floor |-> IF timers[i].kind = "arrival"
                               THEN timers[i].targetFloor
                               ELSE currentFloor,
                     during |-> currentState, added |-> FALSE]
    /\ UNCHANGED <<accepting, clock>>

ArrivalFires == \E i \in 1..Len(timers) : timers[i].kind = "arrival" /\ Fire(i)

DoorOpenFires == \E i \in 1..Len(timers) : timers[i].kind = "closeDoors" /\ Fire(i)

DoorCloseFires == \E i \in 1..Len(timers) : timers[i].kind = "doorsClosed" /\ Fire(i)

TimerFires == ArrivalFires \/ DoorOpenFires \/ DoorCloseFires

\* the adapter stops delivering clicks (the last user has left)
StopRequests ==
    /\ accepting
    /\ accepting' = FALSE
    /\ UNCHANGED <<currentState, currentFloor, requestQueue, timers,
                   transitions, lastEvent, dequeued, lastDequeued, clock>>

Next ==
    \/ \E floor \in Floors : Click(floor)
    \/ ArrivalFires
    \/ DoorOpenFires
    \/ DoorCloseFires

Spec == Init /\ [][Next]_vars

(***************************************************************************)
(* The same program with an environment that may stop requesting, and      *)
(* with the guarantee setTimeout gives: a scheduled callback is run.       *)
(***************************************************************************)
LiveNext ==
    \/ \E floor \in Floors : Click(floor)
    \/ ArrivalFires
    \/ DoorOpenFires
    \/ DoorCloseFires
    \/ StopRequests

LiveSpec == Init /\ [][LiveNext]_vars /\ WF_vars(TimerFires)

(***************************************************************************)
(* The same program with time.  A callback runs exactly when its delay has *)
(* elapsed (the earliest pending one first); the clock is read from the    *)
(* click that starts the car from rest.  A click that only queues a floor  *)
(* falls somewhere inside the running phase and moves no deadline.         *)
(***************************************************************************)
TimedClick(floor) ==
    /\ accepting
    /\ LET c == [Controller EXCEPT !.clock = IF currentState = IDLE
                                             THEN 0 ELSE @]
       IN  Commit(click(c, floor)) /\ clock' = c.clock
    /\ lastEvent' = [kind |-> "click", floor |-> floor,
                     during |-> currentState,
                     added |-> ~Includes(requestQueue, floor)]
    /\ UNCHANGED accepting

TimedFire(i) ==
    /\ i \in 1..Len(timers)
    /\ \A j \in 1..Len(timers) : timers[i].at <= timers[j].at
    /\ timers[i].at <= MaxTime
    /\ LET c == [Controller EXCEPT !.timers = RemoveAt(@, i),
                                  !.clock = timers[i].at]
       IN  Commit(callback(c, timers[i])) /\ clock' = c.clock
    /\ lastEvent' = [kind |-> timers[i].kind,
                     floor |-> IF timers[i].kind = "arrival"
                               THEN timers[i].targetFloor
                               ELSE currentFloor,
                     during |-> currentState, added |-> FALSE]
    /\ UNCHANGED accepting

TimedArrival ==
    \E i \in 1..Len(timers) : timers[i].kind = "arrival" /\ TimedFire(i)

TimedDoorOpenElapsed ==
    \E i \in 1..Len(timers) : timers[i].kind = "closeDoors" /\ TimedFire(i)

TimedDoorCloseElapsed ==
    \E i \in 1..Len(timers) : timers[i].kind = "doorsClosed" /\ TimedFire(i)

TimedNext ==
    \/ \E floor \in Floors : TimedClick(floor)
    \/ TimedArrival
    \/ TimedDoorOpenElapsed
    \/ TimedDoorCloseElapsed

TimedSpec == Init /\ [][TimedNext]_vars

TypeOK ==
    /\ currentState \in STATES
    /\ currentFloor \in Floors
    /\ Range(requestQueue) \subseteq Floors
    /\ accepting \in BOOLEAN

Moving == {MOVING_UP, MOVING_DOWN}

\* the targets of the arrival callbacks that are pending
Targets(ts) == {ts[i].targetFloor : i \in {j \in 1..Len(ts) : ts[j].kind = "arrival"}}

ClickedWhile(states) ==
    /\ lastEvent.kind = "click"
    /\ lastEvent.during \in states

(***************************************************************************)
(* C1: in every reachable state the entries of the request queue are       *)
(* pairwise distinct.                                                      *)
(***************************************************************************)
C1_QueueDistinct ==
    \A i, j \in 1..Len(requestQueue) :
        i # j => requestQueue[i] # requestQueue[j]

\* a floor that is already queued has been requested again
C1_Witness ==
    /\ ClickedWhile(STATES \ {IDLE})
    /\ ~lastEvent.added
    /\ Includes(requestQueue, lastEvent.floor)
    /\ Len(requestQueue) >= 2

(***************************************************************************)
(* C2: while the car is moving toward a target T, a click for any other    *)
(* floor leaves currentState and currentFloor as they are, and leaves the  *)
(* arrival callback for T pending; only that callback ends the motion.     *)
(***************************************************************************)
C2_NoInterruption ==
    [][(/\ currentState \in Moving
        /\ lastEvent'.kind = "click"
        /\ Targets(timers) # {}
        /\ lastEvent'.floor \notin Targets(timers))
       => (/\ currentState' = currentState
           /\ currentFloor' = currentFloor
           /\ timers' = timers)]_vars

\* another floor has been queued during a motion
C2_Witness ==
    /\ ClickedWhile(Moving)
    /\ lastEvent.added
    /\ currentState \in Moving
    /\ Targets(timers) # {}
    /\ lastEvent.floor \notin Targets(timers)
    /\ Includes(requestQueue, lastEvent.floor)

Ahead(q, a, b) ==
    \E i, j \in 1..Len(q) : i < j /\ q[i] = a /\ q[j] = b

Ascending(q) == \A i \in 1..(Len(q) - 1) : q[i] < q[i + 1]

(***************************************************************************)
(* C3: after an insertion made while MovingUp (resp. MovingDown), every    *)
(* queued floor above (resp. below) currentFloor is ahead of every queued  *)
(* floor on the other side of currentFloor.                                *)
(***************************************************************************)
C3_DirectionFirst ==
    (ClickedWhile(Moving) /\ lastEvent.added) =>
        \A a, b \in Range(requestQueue) :
            /\ (currentState = MOVING_UP /\ a > currentFloor /\ b < currentFloor)
                   => Ahead(requestQueue, a, b)
            /\ (currentState = MOVING_DOWN /\ a < currentFloor /\ b > currentFloor)
                   => Ahead(requestQueue, a, b)

(***************************************************************************)
(* C4: after an insertion made while Idle or DoorOpen (doors open or       *)
(* closing) the queue is in plain ascending order of floor number.         *)
(***************************************************************************)
C4_AscendingWhenStationary ==
    (ClickedWhile({IDLE, DOOR_OPEN}) /\ lastEvent.added) =>
        Ascending(requestQueue)

(***************************************************************************)
(* C6: at most one timer is outstanding at any time.                       *)
(***************************************************************************)
C6_OneTimer == Len(timers) <= 1

\* a request has arrived while a timer is pending, and one timer is pending
C6_Witness ==
    /\ ClickedWhile(STATES \ {IDLE})
    /\ lastEvent.added
    /\ Len(timers) = 1
    /\ Len(requestQueue) >= 2

(***************************************************************************)
(* C7: no transition skips a phase.  In the order in which setState is     *)
(* called, MovingUp or MovingDown is followed next by DoorOpen and         *)
(* DoorOpen is followed next by Idle.                                      *)
(***************************************************************************)
C7_NoSkippedPhase ==
    [][LET seq == <<currentState>> \o transitions'
       IN  \A i \in 1..(Len(seq) - 1) :
               /\ seq[i] \in Moving => seq[i + 1] = DOOR_OPEN
               /\ seq[i] = DOOR_OPEN => seq[i + 1] = IDLE]_vars

\* a door cycle has ended and the next motion has begun in the same task
C7_Witness ==
    /\ lastEvent.kind = "doorsClosed"
    /\ lastEvent.during = DOOR_OPEN
    /\ Len(transitions) = 2
    /\ transitions[1] = IDLE
    /\ transitions[2] \in Moving

(***************************************************************************)
(* C8: currentFloor changes only when an arrival callback runs; it then    *)
(* changes (once for that motion) to the target of the motion.  No click,  *)
(* dispatch or door callback changes it.                                   *)
(***************************************************************************)
C8_FloorChangesOnArrival ==
    [][/\ currentFloor' # currentFloor =>
              (lastEvent'.kind = "arrival" /\ currentState \in Moving)
       /\ lastEvent'.kind = "arrival" =>
              (/\ currentFloor' = lastEvent'.floor
               /\ currentFloor' # currentFloor
               /\ Targets(timers') = {})]_vars

\* the car has arrived at the target of a motion
C8_Witness ==
    /\ lastEvent.kind = "arrival"
    /\ lastEvent.during \in Moving
    /\ currentFloor = lastEvent.floor
    /\ currentState = DOOR_OPEN

(***************************************************************************)
(* C9: a request for currentFloor made while Idle takes the controller     *)
(* from Idle to DoorOpen directly: no moving state is set, no arrival      *)
(* callback is scheduled and currentFloor is unchanged.                    *)
(***************************************************************************)
C9_SameFloorShortcut ==
    [][(/\ currentState = IDLE
        /\ lastEvent'.kind = "click"
        /\ lastEvent'.floor = currentFloor)
       => (/\ transitions' = <<DOOR_OPEN>>
           /\ currentState' = DOOR_OPEN
           /\ Targets(timers') = {}
           /\ currentFloor' = currentFloor
           /\ requestQueue' = <<>>)]_vars

\* the floor the idle car is on has been requested
C9_Witness ==
    /\ ClickedWhile({IDLE})
    /\ lastEvent.floor = currentFloor
    /\ currentState = DOOR_OPEN
    /\ currentFloor # 0

(***************************************************************************)
(* C10: a floor that is waiting in the queue when the door-close callback  *)
(* runs is dispatched by that same callback: the callback sets Idle,       *)
(* removes the head of the queue and starts the motion (or door cycle)     *)
(* for it.                                                                 *)
(***************************************************************************)
C10_ReentrantDispatch ==
    [][(lastEvent'.kind = "doorsClosed" /\ Len(requestQueue) > 0)
       => (/\ requestQueue' = Tail(requestQueue)
           /\ Len(transitions') = 2
           /\ transitions'[1] = IDLE
           /\ IF Head(requestQueue) = currentFloor
              THEN currentState' = DOOR_OPEN /\ Targets(timers') = {}
              ELSE /\ currentState' \in Moving
                   /\ Targets(timers') = {Head(requestQueue)}
           /\ Len(timers') = 1)]_vars

\* the door-close callback has started the motion toward a queued floor
C10_Witness ==
    /\ lastEvent.kind = "doorsClosed"
    /\ currentState \in Moving
    /\ Targets(timers) # {}
    /\ currentFloor \notin Targets(timers)

Served(f) == currentState = DOOR_OPEN /\ currentFloor = f

(***************************************************************************)
(* C5 as stated: every floor that is in the request queue is eventually    *)
(* served (DoorOpen with currentFloor equal to it), whatever requests      *)
(* follow, provided every scheduled callback runs.                         *)
(***************************************************************************)
C5_NoStarvation ==
    \A f \in Floors : Includes(requestQueue, f) ~> Served(f)

(***************************************************************************)
(* C5 amended: every floor that is in the request queue once requests      *)
(* have stopped is eventually served, provided every scheduled callback    *)
(* runs.                                                                   *)
(***************************************************************************)
C5_ServedOnceRequestsStop ==
    \A f \in Floors : (Includes(requestQueue, f) /\ ~accepting) ~> Served(f)

\* requests have stopped, floors were waiting, and one that waited behind
\* another is now being served
C5_Witness ==
    /\ ~accepting
    /\ lastEvent.kind = "arrival"
    /\ lastEvent.floor \notin Range(requestQueue)
    /\ Served(lastEvent.floor)
    /\ Len(requestQueue) >= 1

(***************************************************************************)
(* C11: phase durations are exact.  A motion from floor c to target T      *)
(* lasts |T - c| * TIME_PER_FLOOR, the door-open phase DOOR_OPEN_TIME and  *)
(* the closing phase DOOR_CLOSE_TIME; so a request for floor 2 made at     *)
(* rest on floor 0 gives MovingUp at 0 ms, DoorOpen on floor 2 at 4000 ms, *)
(* closing at 7000 ms and Idle at 7500 ms.                                 *)
(***************************************************************************)
C11_ExactDurations ==
    [][/\ lastEvent'.kind = "arrival" =>
              clock' - clock = Abs(lastEvent'.floor - currentFloor) * TIME_PER_FLOOR
       /\ lastEvent'.kind = "closeDoors" => clock' - clock = DOOR_OPEN_TIME
       /\ lastEvent'.kind = "doorsClosed" => clock' - clock = DOOR_CLOSE_TIME
       /\ (lastEvent'.kind = "click" /\ currentState = IDLE) => clock' = 0
       /\ (lastEvent'.kind = "click" /\ currentState # IDLE) => clock' = clock
       /\ (/\ lastEvent'.kind = "click" /\ lastEvent'.floor = 2
           /\ currentState = IDLE /\ currentFloor = 0)
              => (currentState' = MOVING_UP /\ clock' = 0)
       /\ (/\ lastEvent'.kind = "arrival" /\ lastEvent'.floor = 2
           /\ currentFloor = 0 /\ clock = 0)
              => (currentState' = DOOR_OPEN /\ currentFloor' = 2 /\ clock' = 4000)
       /\ (lastEvent'.kind = "closeDoors" /\ clock = 4000)
              => (currentState' = DOOR_OPEN /\ clock' = 7000)
       /\ (lastEvent'.kind = "doorsClosed" /\ clock = 7000)
              => (transitions'[1] = IDLE /\ clock' = 7500)]_vars

\* the cycle for floor 2 started at rest has ended, 7500 ms after the request
C11_Witness ==
    /\ lastEvent.kind = "doorsClosed"
    /\ currentState = IDLE
    /\ currentFloor = 2
    /\ lastDequeued = <<2>>
    /\ clock = 7500

(***************************************************************************)
(* C12: a request for a floor that is already in the queue is a no-op:     *)
(* the queue (contents and order), the state, currentFloor and the pending *)
(* timer are unchanged.                                                    *)
(***************************************************************************)
C12_QueuedFloorNoOp ==
    [][(lastEvent'.kind = "click" /\ Includes(requestQueue, lastEvent'.floor))
       => (/\ requestQueue' = requestQueue
           /\ currentState' = currentState
           /\ currentFloor' = currentFloor
           /\ timers' = timers
           /\ transitions' = <<>>
           /\ dequeued' = <<>>)]_vars

\* a queued floor has been requested again, while the queue is in an order
\* that sorting it now would change
C12_Witness ==
    /\ lastEvent.kind = "click"
    /\ ~lastEvent.added
    /\ Includes(requestQueue, lastEvent.floor)
    /\ SortQueue(Controller, requestQueue) # requestQueue

Count(q, x) == Cardinality({i \in 1..Len(q) : q[i] = x})

(***************************************************************************)
(* C13: two requests for the same floor f in a row, the first made while   *)
(* Idle and no timer callback between them, leave a queue that contains f  *)
(* exactly once.                                                           *)
(***************************************************************************)
C13_TwiceWhileIdle ==
    [][(/\ lastEvent.kind = "click"
        /\ lastEvent.during = IDLE
        /\ lastEvent'.kind = "click"
        /\ lastEvent'.floor = lastEvent.floor)
       => Count(requestQueue', lastEvent'.floor) = 1]_vars

\* the floor just dispatched from Idle has been requested again and is the
\* one entry of the queue
C13_Witness ==
    /\ ClickedWhile(STATES \ {IDLE})
    /\ lastEvent.added
    /\ lastDequeued = <<lastEvent.floor>>
    /\ requestQueue = <<lastEvent.floor>>
    /\ Len(timers) = 1
    /\ timers[1].kind \in {"arrival", "closeDoors"}

(***************************************************************************)
(* C14: after an insertion made while MovingUp or MovingDown, the queued   *)
(* floors on the travel side of currentFloor are in the order of travel    *)
(* (ascending if MovingUp, descending if MovingDown) and the remaining     *)
(* queued floors are in ascending order among themselves.                  *)
(***************************************************************************)
C14_TravelSideThenAscending ==
    (ClickedWhile(Moving) /\ lastEvent.added) =>
        LET up == currentState = MOVING_UP
            travelSide(a) == IF up THEN a > currentFloor ELSE a < currentFloor
        IN  \A a, b \in Range(requestQueue) :
                /\ (travelSide(a) /\ travelSide(b) /\ (IF up THEN a < b ELSE a > b))
                       => Ahead(requestQueue, a, b)
                /\ (~travelSide(a) /\ ~travelSide(b) /\ a < b)
                       => Ahead(requestQueue, a, b)

(***************************************************************************)
(* C15: a dispatch toward a target other than currentFloor enters MovingUp *)
(* exactly when the target is above currentFloor and MovingDown exactly    *)
(* when it is below: in every MovingUp state the target in flight is above *)
(* currentFloor, in every MovingDown state it is below, and a target is in *)
(* flight only in those states.                                            *)
(***************************************************************************)
C15_DirectionMatchesTarget ==
    /\ currentState = MOVING_UP =>
           (Targets(timers) # {} /\ \A t \in Targets(timers) : t > currentFloor)
    /\ currentState = MOVING_DOWN =>
           (Targets(timers) # {} /\ \A t \in Targets(timers) : t < currentFloor)
    /\ Targets(timers) # {} => currentState \in Moving

\* the door-close callback has sent the car down to a queued floor
C15_Witness ==
    /\ lastEvent.kind = "doorsClosed"
    /\ currentState = MOVING_DOWN
    /\ Targets(timers) = {lastDequeued[1]}
    /\ lastDequeued[1] < currentFloor

\* the step is a task of the given kind (not a step of the environment)
TaskStep(kind) == lastEvent'.kind = kind /\ accepting' = accepting

DoorPhase(kind) ==
    /\ currentState = DOOR_OPEN
    /\ Len(timers) = 1
    /\ timers[1].kind = kind

(***************************************************************************)
(* C16: once DoorOpen is entered the door cycle runs to completion: the    *)
(* door-open timer fires, then the door-close timer fires, then the state  *)
(* is set to Idle.  A click at any point of the cycle leaves the state     *)
(* DoorOpen, dispatches nothing and leaves the pending timer as it is.     *)
(***************************************************************************)
C16_DoorCycleCompletes ==
    /\ [](currentState = DOOR_OPEN =>
              (DoorPhase("closeDoors") \/ DoorPhase("doorsClosed")))
    /\ [][/\ (currentState = DOOR_OPEN /\ TaskStep("click"))
                 => (/\ currentState' = DOOR_OPEN
                     /\ currentFloor' = currentFloor
                     /\ timers' = timers
                     /\ transitions' = <<>>
                     /\ dequeued' = <<>>)
          /\ TaskStep("closeDoors")
                 => (DoorPhase("closeDoors") /\ DoorPhase("doorsClosed")')
          /\ TaskStep("doorsClosed")
                 => (DoorPhase("doorsClosed") /\ transitions'[1] = IDLE)]_vars
    /\ DoorPhase("closeDoors") ~> DoorPhase("doorsClosed")
    /\ DoorPhase("doorsClosed") ~> (lastEvent.kind = "doorsClosed")

\* the doors have closed after floors were requested during the cycle
C16_Witness ==
    /\ lastEvent.kind = "doorsClosed"
    /\ lastEvent.during = DOOR_OPEN
    /\ transitions[1] = IDLE
    /\ Len(requestQueue) >= 1

AtRest ==
    /\ currentState = IDLE
    /\ requestQueue = <<>>
    /\ timers = <<>>

(***************************************************************************)
(* C17: if requests stop and every scheduled timer fires, the controller   *)
(* eventually is Idle with an empty queue and no pending timer, and it     *)
(* leaves that state only by a new request.                                *)
(***************************************************************************)
C17_ComesToRest ==
    /\ (~accepting) ~> AtRest
    /\ [][(AtRest /\ ~AtRest') => (accepting /\ TaskStep("click"))]_vars

\* requests have stopped and the car has come to rest away from floor 0
C17_Witness ==
    /\ ~accepting
    /\ AtRest
    /\ lastEvent.kind = "doorsClosed"
    /\ currentFloor # 0

(***************************************************************************)
(* C18: whenever the controller is Idle between two tasks the request      *)
(* queue is empty (and no timer is pending): a request made while Idle and *)
(* the head of the queue at door close are dispatched by the task that     *)
(* finds the controller Idle.                                              *)
(***************************************************************************)
C18_IdleMeansEmptyQueue ==
    currentState = IDLE => (requestQueue = <<>> /\ timers = <<>>)

\* a door-close callback found nothing to dispatch and left the car idle
C18_Witness ==
    /\ currentState = IDLE
    /\ lastEvent.kind = "doorsClosed"
    /\ transitions = <<IDLE>>
    /\ dequeued = <<>>
    /\ requestQueue = <<>>
    /\ lastDequeued # <<>>

(***************************************************************************)
(* C19: each dequeue is followed by one door cycle at the dequeued floor   *)
(* before the next dequeue.  In every DoorOpen state currentFloor is the   *)
(* floor dequeued most recently (in every moving state that floor is the   *)
(* target), and a floor is dequeued only at rest or by the door-close      *)
(* callback that ends the cycle of the floor dequeued before it.           *)
(***************************************************************************)
C19_OneCyclePerDequeue ==
    /\ [](currentState = DOOR_OPEN => lastDequeued = <<currentFloor>>)
    /\ [](currentState \in Moving =>
              (lastDequeued # <<>> /\ Targets(timers) = {lastDequeued[1]}))
    /\ [][(dequeued' # <<>> /\ accepting' = accepting)
          => (/\ Len(dequeued') = 1
              /\ \/ AtRest /\ TaskStep("click")
                 \/ /\ TaskStep("doorsClosed")
                    /\ DoorPhase("doorsClosed")
                    /\ lastDequeued = <<currentFloor>>
              /\ Len(timers') = 1)]_vars

\* the car has arrived at the floor dequeued last while others are waiting
C19_Witness ==
    /\ currentState = DOOR_OPEN
    /\ lastEvent.kind = "arrival"
    /\ lastDequeued = <<currentFloor>>
    /\ dequeued = <<>>
    /\ Len(requestQueue) >= 1
    /\ ~Includes(requestQueue, currentFloor)

\* the floor f is the one being served: the car is on its way to it or its
\* doors are open (or closing) there
Serving(f) ==
    \/ currentState \in Moving /\ f \in Targets(timers)
    \/ currentState = DOOR_OPEN /\ currentFloor = f

====
